---------------------------- MODULE Spec2Model ----------------------------
(***************************************************************************)
(* A model of lib/crf/src/vecmath.h (crfsuite): the scalar fast            *)
(* exponential fastexp and the vector primitives over floatval_t.          *)
(*                                                                         *)
(* floatval_t and double are IEEE-754 binary64 values, computed here bit   *)
(* for bit (round to nearest, ties to even; signed zeros, subnormals,      *)
(* infinities).  A value is the record of its three bit fields             *)
(*     [s |-> sign, e |-> 11-bit exponent field,                           *)
(*      hi |-> upper 26 fraction bits, lo |-> lower 26 fraction bits]      *)
(* All NaNs are one value (payloads are not tracked).  int is 32 bits.     *)
(* The union in fastexp is laid out as on a little-endian machine, the     *)
(* byte order the source assumes: c[7] is the most significant byte.       *)
(***************************************************************************)
EXTENDS Integers, Sequences, FiniteSets, TLC

(***************************************************************************)
(* Natural numbers of any size: little-endian sequences of 13-bit limbs    *)
(* without high zero limbs (TLC integers are 32 bits wide, a binary64      *)
(* significand is 53).                                                     *)
(***************************************************************************)
(* The arithmetic is written as functions of evaluated arguments, so that  *)
(* no operand is computed more than once.                                  *)
(***************************************************************************)
B == 2^13
Half == 2^26
Limbs == Seq(Nat)

BLimb(a, i) == IF i >= 1 /\ i <= Len(a) THEN a[i] ELSE 0

\* a without its high zero limbs
BTrim[a \in Limbs] ==
  SubSeq(a, 1, IF \A i \in 1..Len(a) : a[i] = 0 THEN 0
               ELSE CHOOSE i \in 1..Len(a) :
                      a[i] # 0 /\ \A j \in (i + 1)..Len(a) : a[j] = 0)

BFromInt[n \in Nat] == BTrim[<<n % B, (n \div B) % B, n \div (B * B)>>]

BToInt(a) == BLimb(a, 1) + BLimb(a, 2) * B + BLimb(a, 3) * B * B

BAddC[a \in Limbs, b \in Limbs, i \in Nat, c \in Nat] ==
  IF i > Len(a) /\ i > Len(b) THEN (IF c = 0 THEN <<>> ELSE <<c>>)
  ELSE <<(BLimb(a, i) + BLimb(b, i) + c) % B>>
         \o BAddC[a, b, i + 1, (BLimb(a, i) + BLimb(b, i) + c) \div B]

BAdd[a \in Limbs, b \in Limbs] == BAddC[a, b, 1, 0]

BSubC[a \in Limbs, b \in Limbs, i \in Nat, c \in Nat] ==
  IF i > Len(a) THEN <<>>
  ELSE <<(BLimb(a, i) - BLimb(b, i) - c + B) % B>>
         \o BSubC[a, b, i + 1, IF BLimb(a, i) - BLimb(b, i) - c < 0 THEN 1 ELSE 0]

\* a - b for a >= b
BSub[a \in Limbs, b \in Limbs] == BTrim[BSubC[a, b, 1, 0]]

BCmpFrom[a \in Limbs, b \in Limbs, i \in Nat] ==
  IF i = 0 THEN 0
  ELSE IF a[i] # b[i] THEN (IF a[i] < b[i] THEN -1 ELSE 1)
  ELSE BCmpFrom[a, b, i - 1]

\* the order of a and b: -1, 0 or 1
BCmp[a \in Limbs, b \in Limbs] ==
  IF Len(a) # Len(b) THEN (IF Len(a) < Len(b) THEN -1 ELSE 1)
  ELSE BCmpFrom[a, b, Len(a)]

\* column k of the product a * b, from row i on
BCol[a \in Limbs, b \in Limbs, k \in Nat, i \in Nat] ==
  IF i > Len(a) \/ i > k THEN 0
  ELSE a[i] * BLimb(b, k + 1 - i) + BCol[a, b, k, i + 1]

BCarry[cols \in Limbs, k \in Nat, c \in Nat] ==
  IF k > Len(cols) THEN <<c % B, c \div B>>
  ELSE <<(cols[k] + c) % B>> \o BCarry[cols, k + 1, (cols[k] + c) \div B]

\* operands of at most 31 limbs keep every column sum below 2^31
BMul[a \in Limbs, b \in Limbs] ==
  IF a = <<>> \/ b = <<>> THEN <<>>
  ELSE BTrim[BCarry[[k \in 1..(Len(a) + Len(b) - 1) |-> BCol[a, b, k, 1]], 1, 0]]

\* a * f for 0 <= f <= B
BScale[a \in Limbs, f \in Nat] ==
  IF a = <<>> \/ f = 0 THEN <<>>
  ELSE BTrim[BCarry[[k \in 1..Len(a) |-> a[k] * f], 1, 0]]

IntBitLen[n \in Nat] == IF n = 0 THEN 0 ELSE 1 + IntBitLen[n \div 2]

BBitLen[a \in Limbs] ==
  IF a = <<>> THEN 0 ELSE 13 * (Len(a) - 1) + IntBitLen[a[Len(a)]]

BBit(a, k) == (BLimb(a, (k \div 13) + 1) \div 2^(k % 13)) % 2

BShl[a \in Limbs, k \in Nat] ==
  IF a = <<>> THEN a
  ELSE [i \in 1..(k \div 13) |-> 0] \o BScale[a, 2^(k % 13)]

BShr[a \in Limbs, k \in Nat] ==
  IF k \div 13 >= Len(a) THEN <<>>
  ELSE BTrim[[i \in 1..(Len(a) - (k \div 13)) |->
                (a[i + (k \div 13)] \div 2^(k % 13))
                  + (BLimb(a, i + (k \div 13) + 1) % 2^(k % 13)) * 2^(13 - (k % 13))]]

\* some bit below bit k is set
BLowBits[a \in Limbs, k \in Nat] ==
  \/ \E i \in 1..Len(a) : i <= k \div 13 /\ a[i] # 0
  \/ BLimb(a, (k \div 13) + 1) % 2^(k % 13) # 0


(***************************************************************************)
(* IEEE-754 binary64 (the C type double).                                  *)
(***************************************************************************)
Double == [s : 0..1, e : 0..2047, hi : 0..(Half - 1), lo : 0..(Half - 1)]
Dbl(s, e, hi, lo) == [s |-> s, e |-> e, hi |-> hi, lo |-> lo]
NaN == Dbl(0, 2047, 2^25, 0)
Inf(s) == Dbl(s, 2047, 0, 0)
Zero(s) == Dbl(s, 0, 0, 0)
One == Dbl(0, 1023, 0, 0)
IsNaN(d) == d.e = 2047 /\ (d.hi # 0 \/ d.lo # 0)
IsInf(d) == d.e = 2047 /\ d.hi = 0 /\ d.lo = 0
IsZero(d) == d.e = 0 /\ d.hi = 0 /\ d.lo = 0
IsFinite(d) == d.e < 2047
Neg(d) == IF IsNaN(d) THEN d ELSE [d EXCEPT !.s = 1 - d.s]
Fabs(d) == IF IsNaN(d) THEN d ELSE [d EXCEPT !.s = 0]

\* a finite value is (-1)^s * Sig * 2^Exp
Sig[d \in Double] ==
  BTrim[<<d.lo % B, d.lo \div B, d.hi % B, d.hi \div B, IF d.e = 0 THEN 0 ELSE 1>>]

Exp(d) == IF d.e = 0 THEN -1074 ELSE d.e - 1075

\* Rounding, last step: the fields of the rounded significand R in units
\* of 2^q.  Overflow gives an infinity.
RoundPack[s \in 0..1, q \in Int, R \in Limbs] ==
  IF BBitLen[R] = 53 /\ q + 1075 >= 2047 THEN Inf(s)
  ELSE Dbl(s, IF BBitLen[R] = 53 THEN q + 1075 ELSE 0,
           BLimb(R, 3) + BLimb(R, 4) * B, BLimb(R, 1) + BLimb(R, 2) * B)

\* a significand that rounding up made 54 bits long is renormalised
RoundNorm[s \in 0..1, q \in Int, R \in Limbs] ==
  IF BBitLen[R] = 54 THEN RoundPack[s, q + 1, BShr[R, 1]] ELSE RoundPack[s, q, R]

\* T is the significand cut to units of 2^q: one is added when the cut-off
\* part is more than half a unit, or is half a unit and T is odd
RoundInc[s \in 0..1, q \in Int, T \in Limbs, guard \in BOOLEAN, rest \in BOOLEAN] ==
  RoundNorm[s, q, IF guard /\ (rest \/ BBit(T, 0) = 1) THEN BAdd[T, <<1>>] ELSE T]

\* k is the number of low bits of M that are cut off (none when k <= 0)
RoundAt[s \in 0..1, M \in Limbs, q \in Int, k \in Int, sticky \in BOOLEAN] ==
  RoundInc[s, q,
           IF k <= 0 THEN BShl[M, -k] ELSE BShr[M, k],
           k > 0 /\ BBit(M, k - 1) = 1,
           sticky \/ (k > 1 /\ BLowBits[M, k - 1])]

\* the unit of the result whose leading bit has weight 2^top: 2^(top - 52),
\* and 2^-1074 for the subnormal values
Quantum(top) == IF top - 52 < -1074 THEN -1074 ELSE top - 52

\* The binary64 nearest to (-1)^s * (M + f) * 2^E, ties to even, where
\* 0 <= f < 1 and f > 0 iff sticky (sticky only with BBitLen(M) >= 55).
RoundF[s \in 0..1, M \in Limbs, E \in Int, sticky \in BOOLEAN] ==
  IF M = <<>> THEN Zero(s)
  ELSE RoundAt[s, M, Quantum(E + BBitLen[M] - 1),
               Quantum(E + BBitLen[M] - 1) - E, sticky]

Round(s, M, E, sticky) == RoundF[s, M, E, sticky]

\* the two operands of a sum brought to one unit 2^E
Alignment == [big : Double, sml : Double, Mb : Limbs, Ms : Limbs, E : Int]

\* the aligned operands of a sum of two finite nonzero values: the
\* significands Mb, Ms of the operand of larger and of smaller exponent,
\* in units of 2^E.  An operand more than 64 binary places below the other
\* only tells which way to round: it is replaced by one unit 2^8 times
\* finer than the larger operand's.
Aligned[a \in Double, b \in Double] ==
  LET swap == Exp(a) < Exp(b)
      big == IF swap THEN b ELSE a
      sml == IF swap THEN a ELSE b
      d == Exp(big) - Exp(sml)
      far == d > 64
  IN  [big |-> big, sml |-> sml,
       Mb |-> BShl[Sig[big], IF far THEN 8 ELSE d],
       Ms |-> IF far THEN <<1>> ELSE Sig[sml],
       E |-> IF far THEN Exp(big) - 8 ELSE Exp(sml)]

\* the sum of aligned operands, c being the order of their significands
AddAligned[al \in Alignment, c \in -1..1] ==
  IF al.big.s = al.sml.s THEN Round(al.big.s, BAdd[al.Mb, al.Ms], al.E, FALSE)
  ELSE IF c = 0 THEN Zero(0)
  ELSE IF c > 0 THEN Round(al.big.s, BSub[al.Mb, al.Ms], al.E, FALSE)
  ELSE Round(al.sml.s, BSub[al.Ms, al.Mb], al.E, FALSE)

AddFinite[al \in Alignment] ==
  AddAligned[al, BCmp[al.Mb, al.Ms]]

\* a + b
AddF[a \in Double, b \in Double] ==
  IF IsNaN(a) \/ IsNaN(b) THEN NaN
  ELSE IF IsInf(a) THEN (IF IsInf(b) /\ b.s # a.s THEN NaN ELSE a)
  ELSE IF IsInf(b) THEN b
  ELSE IF IsZero(a) /\ IsZero(b) THEN Zero(IF a.s = 1 /\ b.s = 1 THEN 1 ELSE 0)
  ELSE IF IsZero(a) THEN b
  ELSE IF IsZero(b) THEN a
  ELSE AddFinite[Aligned[a, b]]

Add(a, b) == AddF[a, b]

\* a difference taken without the change of sign
AddInstead(a, b) == AddF[a, b]

\* a - b
Sub(a, b) == AddF[a, Neg(b)]

\* a * b
MulF[a \in Double, b \in Double] ==
  IF IsNaN(a) \/ IsNaN(b) THEN NaN
  ELSE IF IsInf(a) \/ IsInf(b)
  THEN (IF IsZero(a) \/ IsZero(b) THEN NaN ELSE Inf(IF a.s = b.s THEN 0 ELSE 1))
  ELSE IF IsZero(a) \/ IsZero(b) THEN Zero(IF a.s = b.s THEN 0 ELSE 1)
  ELSE Round(IF a.s = b.s THEN 0 ELSE 1, BMul[Sig[a], Sig[b]], Exp(a) + Exp(b), FALSE)

Mul(a, b) == MulF[a, b]

\* one digit q of a quotient with the remainder r it leaves
DivState == [q : Nat, r : Limbs]

\* the digits of a quotient, and whether the division left a remainder
DivResult == [Q : Limbs, rem : BOOLEAN]

\* One digit of long division in base B: floor(R / D) and the remainder,
\* for D of at least 15 bits and R < D * B.  The digit q is estimated from
\* the leading 15 bits of D, never too high and at most two too low; it is
\* raised while the remainder R allows.
DivFix[R \in Limbs, D \in Limbs, q \in Nat] ==
  IF BCmp[R, D] >= 0 THEN DivFix[BSub[R, D], D, q + 1] ELSE [q |-> q, r |-> R]

DivTry[R \in Limbs, D \in Limbs, q \in Nat] == DivFix[BSub[R, BScale[D, q]], D, q]

DivStep[R \in Limbs, D \in Limbs] ==
  DivTry[R, D, BToInt(BShr[R, BBitLen[D] - 15])
                 \div (BToInt(BShr[D, BBitLen[D] - 15]) + 1)]

\* long division: after the step st, n further limbs of the quotient by D,
\* below the limbs Q (least significant first), and whether a remainder is
\* left
DivDigits[st \in DivState, D \in Limbs, n \in Nat, Q \in Limbs] ==
  IF n = 0 THEN [Q |-> <<st.q>> \o Q, rem |-> st.r # <<>>]
  ELSE DivDigits[DivStep[BShl[st.r, 13], D], D, n - 1, <<st.q>> \o Q]

DivRound[s \in 0..1, r \in DivResult, E \in Int] ==
  Round(s, BTrim[r.Q], E, r.rem)

\* the quotient of significands Ma, Mb, aligned to the same length
DivSig[s \in 0..1, Ma \in Limbs, Mb \in Limbs, E \in Int, sa \in Nat, sb \in Nat] ==
  DivRound[s, DivDigits[DivStep[BShl[Ma, sa], BShl[Mb, sb]], BShl[Mb, sb], 5, <<>>], E - sa + sb - 65]

\* a / b
DivF[a \in Double, b \in Double] ==
  LET sg == IF a.s = b.s THEN 0 ELSE 1
      La == BBitLen[Sig[a]]
      Lb == BBitLen[Sig[b]]
  IN  IF IsNaN(a) \/ IsNaN(b) THEN NaN
      ELSE IF IsInf(a) THEN (IF IsInf(b) THEN NaN ELSE Inf(sg))
      ELSE IF IsInf(b) THEN Zero(sg)
      ELSE IF IsZero(b) THEN (IF IsZero(a) THEN NaN ELSE Inf(sg))
      ELSE IF IsZero(a) THEN Zero(sg)
      ELSE DivSig[sg, Sig[a], Sig[b], Exp(a) - Exp(b),
                  IF Lb > La THEN Lb - La ELSE 0, IF La > Lb THEN La - Lb ELSE 0]

Div(a, b) == DivF[a, b]

\* the order of the magnitudes of two values that are not NaN
MagCmp(a, b) ==
  IF a.e # b.e THEN (IF a.e < b.e THEN -1 ELSE 1)
  ELSE IF a.hi # b.hi THEN (IF a.hi < b.hi THEN -1 ELSE 1)
  ELSE IF a.lo # b.lo THEN (IF a.lo < b.lo THEN -1 ELSE 1)
  ELSE 0

\* a < b
Lt(a, b) ==
  /\ ~IsNaN(a) /\ ~IsNaN(b)
  /\ ~(IsZero(a) /\ IsZero(b))
  /\ IF a.s # b.s THEN a.s = 1
     ELSE IF a.s = 0 THEN MagCmp(a, b) < 0 ELSE MagCmp(a, b) > 0

\* a == b
Eq(a, b) ==
  /\ ~IsNaN(a) /\ ~IsNaN(b)
  /\ (IsZero(a) /\ IsZero(b)) \/ a = b

\* a <= b
Le(a, b) == Lt(a, b) \/ Eq(a, b)

(***************************************************************************)
(* int (32 bits) and its conversions.                                      *)
(***************************************************************************)
INT_MIN == -2147483647 - 1

IntMag[n \in Int] ==
  IF n = INT_MIN THEN <<0, 0, 32>> ELSE BFromInt[IF n < 0 THEN -n ELSE n]

\* (double)n
IntToDbl(n) == Round(IF n < 0 THEN 1 ELSE 0, IntMag[n], 0, FALSE)

\* the magnitude of d with its fraction cut off
Trunc[d \in Double] ==
  IF Exp(d) >= 0 THEN BShl[Sig[d], Exp(d)] ELSE BShr[Sig[d], -Exp(d)]

\* (int)d is defined when the truncated value is an int
CastDefined(d) ==
  /\ IsFinite(d)
  /\ d.e < 1023 + 32
  /\ \/ BBitLen[Trunc[d]] <= 31
     \/ d.s = 1 /\ Trunc[d] = <<0, 0, 32>>

\* (int)d, where defined
DblToInt(d) ==
  IF Trunc[d] = <<0, 0, 32>> THEN INT_MIN
  ELSE (IF d.s = 1 THEN -1 ELSE 1) * BToInt(Trunc[d])

(***************************************************************************)
(* fastexp.  The constants are the binary64 values nearest to the decimal  *)
(* literals of the source (their bit patterns are given in hexadecimal).   *)
(* Every operation rounds to double (no fused multiply-add, no extended    *)
(* precision).                                                             *)
(***************************************************************************)
MAXLOG == Dbl(0, 1032, 25742071, 24820946)      \* 4086232BDD7ABCD2
MINLOG == Dbl(1, 1032, 25742071, 24820946)      \* C086232BDD7ABCD2
LOG2E == Dbl(0, 1023, 29708761, 19628798)       \* 3FF71547652B82FE
INFINITY == Dbl(0, 2046, 67108863, 67108863)    \* 7FEFFFFFFFFFFFFF
C1 == Dbl(0, 1022, 25923584, 0)                 \* 3FE62E4000000000
C2 == Dbl(0, 1003, 33420403, 58305482)          \* 3EB7F7D1CF79ABCA
HalfD == Dbl(0, 1022, 0, 0)                     \* 0.5
Two == Dbl(0, 1024, 0, 0)                       \* 2.0
\* the coefficients of P, lines 68-72
PCoef == <<Dbl(0, 1010, 2257781, 31738856),     \* 3F2089CDD5E44BE8
           Dbl(0, 1017, 63026243, 13249662),    \* 3F9F06D10CCA2C7E
           Dbl(0, 1023, 0, 0)>>                 \* 3FF0000000000000
\* the coefficients of Q, lines 76-82
QCoef == <<Dbl(0, 1004, 38514095, 3563424),     \* 3EC92EB6BC365FA0
           Dbl(0, 1014, 19631725, 17348288),    \* 3F64AE39B508B6C0
           Dbl(0, 1020, 54903398, 8904820),     \* 3FCD17099887E074
           Dbl(0, 1024, 0, 0)>>                 \* 4000000000000000

\* lines 55-59: which return the clamp takes, if any
Clamp(x) ==
  IF Lt(MAXLOG, x) THEN "high" ELSE IF Lt(x, MINLOG) THEN "low" ELSE "none"

\* line 61: the operand of the cast, LOG2E * x + 0.5
Scaled(x) == Add(Mul(LOG2E, x), HalfD)

\* line 61: the values (int)(LOG2E * x + 0.5) can take.  The cast of a NaN
\* or of a value outside int is undefined: INT_MIN, -1 or 0.
CastIntF[d \in Double] == IF CastDefined(d) THEN {DblToInt(d)} ELSE {INT_MIN, -1, 0}
CastInt(d) == CastIntF[d]

\* lines 62-64: x -= px * C1; x -= px * C2 with px = (double)n
Reduced(x, n) ==
  LET px == IntToDbl(n)
      x1 == Sub(x, Mul(px, C1))
  IN  Sub(x1, Mul(px, C2))

\* line 65: xx = x * x
Square(x) == Mul(x, x)

\* lines 68-73: px = x * P(x**2)
PolyP(x, xx) ==
  LET p1 == Add(Mul(PCoef[1], xx), PCoef[2])
      p2 == Add(Mul(p1, xx), PCoef[3])
  IN  Mul(p2, x)

\* lines 76-82: qx = Q(x**2)
PolyQ(xx) ==
  LET q1 == Add(Mul(QCoef[1], xx), QCoef[2])
      q2 == Add(Mul(q1, xx), QCoef[3])
  IN  Add(Mul(q2, xx), QCoef[4])

\* line 85: x = px / (qx - px)
QuotF[px \in Double, qx \in Double] == Div(px, Sub(qx, px))
Quot(px, qx) == QuotF[px, qx]

\* line 86 without its 1.0 +
TwiceOnly(x) == Mul(Two, x)

\* line 86: x = 1.0 + 2.0 * x
OnePlusTwice(x) == Add(One, Mul(Two, x))

\* the union u: eight bytes c[0..7] that are also the double d
ZeroBytes == [i \in 0..7 |-> 0]

UnionD(c) ==
  LET e == (c[7] % 128) * 16 + c[6] \div 16
      hi == (c[6] % 16) * 2^22 + c[5] * 2^14 + c[4] * 2^6 + c[3] \div 4
      lo == (c[3] % 4) * 2^24 + c[2] * 2^16 + c[1] * 2^8 + c[0]
  IN  IF e = 2047 /\ (hi # 0 \/ lo # 0) THEN NaN ELSE Dbl(c[7] \div 128, e, hi, lo)

\* lines 89-92 with line 92 missing its shift
BuildPow2NoShift(n) ==
  [ZeroBytes EXCEPT ![7] = (n \div 16) % 128, ![6] = n % 16]

\* lines 89-92: u.d = 0; n += 1023; the two byte writes (n is n + 1023)
BuildPow2(n) ==
  [ZeroBytes EXCEPT ![7] = (n \div 16) % 128,
                    ![6] = ((n % 16) * 16) % 256]

\* line 94: return x * u.d
Scale(x, u) == Mul(x, UnionD(u))

\* lines 62-94 for the value n of the cast
ApproxPoly[x \in Double, xx \in Double, n \in Int] ==
  Scale(OnePlusTwice(Quot(PolyP(x, xx), PolyQ(xx))), BuildPow2(n + 1023))

ApproxReduced[x \in Double, n \in Int] == ApproxPoly[x, Square(x), n]

Approx(x, n) == ApproxReduced[Reduced(x, n), n]

\* fastexp(x): the values it can return
fastexpF[x \in Double] ==
  IF Clamp(x) = "high" THEN {INFINITY}
  ELSE IF Clamp(x) = "low" THEN {Zero(0)}
  ELSE {Approx(x, n) : n \in CastInt(Scaled(x))}

fastexp(x) == fastexpF[x]

(***************************************************************************)
(* State.  mem is the callers' memory: four buffers of BufLen doubles, one  *)
(* after the other.  hist lists the completed whole calls, each with the    *)
(* memory it started from; fxcalls holds the arguments the last call passed *)
(* to fastexp.  fx is an activation of fastexp, red one of a reduction,     *)
(* thr the activations of two threads and tmp the storage of their          *)
(* temporaries.                                                             *)
(***************************************************************************)
VARIABLES mem, hist, fxcalls, fx, red, thr, tmp

vars == <<mem, hist, fxcalls, fx, red, thr, tmp>>

\* the longest vector passed, and the half steps the arguments of fastexp
\* span on each side of 0
MaxLen == 2
FxSpan == 1420

BufLen == MaxLen + 1
Base(b) == b * BufLen
Addr == 0..(4 * BufLen - 1)
Lens == 0..MaxLen

Three == Dbl(0, 1024, 33554432, 0)
Tiny == Dbl(0, 963, 0, 0)                       \* 2^-60

\* memory whose buffers hold, at the indices below MaxLen, values of the
\* given sets, and Three everywhere else
Memories(ys, xs) ==
  {[a \in Addr |-> IF a % BufLen = MaxLen \/ a >= Base(2) THEN Three
                   ELSE IF a < Base(1) THEN f[a] ELSE g[a - Base(1)]] :
     f \in [0..(MaxLen - 1) -> ys], g \in [0..(MaxLen - 1) -> xs]}

\* the contents of memory
Memory == [Addr -> Double]

\* an outcome of vecexp: the memory, and the arguments fastexp was called with
Outcome == [mem : Memory, calls : SUBSET Double]

FxIdle ==
  [pc |-> "idle", arg |-> Zero(0), x |-> Zero(0), n |-> 0, xx |-> Zero(0),
   px |-> Zero(0), qx |-> Zero(0), u |-> ZeroBytes, ret |-> Zero(0)]

\* a reduction before its call: the arguments, the locals i and s, the indices
\* read so far, and the returned value (none yet)
RedIdle ==
  [pc |-> "idle", op |-> "none", x |-> 0, y |-> 0, n |-> 0, i |-> 0,
   s |-> Zero(0), seen |-> <<>>, ret |-> {}]

\* a thread before its call
ThrIdle ==
  [pc |-> "idle", op |-> "none", y |-> 0, a |-> Zero(0), x |-> 0, n |-> 0,
   i |-> 0, ret |-> {}]

Threads == {1, 2}

Quiet ==
  /\ hist = <<>>
  /\ fxcalls = {}
  /\ fx = FxIdle
  /\ red = RedIdle
  /\ thr = [t \in Threads |-> ThrIdle]
  /\ tmp = [t \in Threads |-> [yv |-> Zero(0), xv |-> Zero(0), s |-> Zero(0)]]

(***************************************************************************)
(* fastexp, statement by statement.                                        *)
(***************************************************************************)
\* the arguments tried: every multiple of 0.5 up to FxSpan / 2 in magnitude,
\* the two thresholds and their neighbours, -0, the infinities and NaN
FxArgs ==
  {Mul(IntToDbl(k), HalfD) : k \in (-FxSpan)..FxSpan}
    \cup {MAXLOG, MINLOG, Zero(1), Inf(0), Inf(1), NaN,
          Dbl(0, 1032, 25742071, 24820947), Dbl(1, 1032, 25742071, 24820947),
          Dbl(0, 1032, 25742071, 24820945), Dbl(1, 1032, 25742071, 24820945)}

\* line 39: the call
FxCall ==
  /\ fx.pc = "idle"
  /\ \E x \in FxArgs : fx' = [fx EXCEPT !.pc = "clamp", !.arg = x, !.x = x]
  /\ UNCHANGED <<mem, hist, fxcalls, red, thr, tmp>>

\* lines 55-59
FxClamp ==
  /\ fx.pc = "clamp"
  /\ fx' = IF Clamp(fx.x) = "high"
             THEN [fx EXCEPT !.pc = "done", !.ret = INFINITY]
           ELSE IF Clamp(fx.x) = "low"
             THEN [fx EXCEPT !.pc = "done", !.ret = Zero(0)]
           ELSE [fx EXCEPT !.pc = "cast"]
  /\ UNCHANGED <<mem, hist, fxcalls, red, thr, tmp>>

\* line 61
FxCast ==
  /\ fx.pc = "cast"
  /\ \E n \in CastInt(Scaled(fx.x)) : fx' = [fx EXCEPT !.pc = "reduce", !.n = n]
  /\ UNCHANGED <<mem, hist, fxcalls, red, thr, tmp>>

\* lines 62-65
FxReduce ==
  /\ fx.pc = "reduce"
  /\ LET xr == Reduced(fx.x, fx.n)
     IN  fx' = [fx EXCEPT !.pc = "polyp", !.px = IntToDbl(fx.n), !.x = xr,
                          !.xx = Square(xr)]
  /\ UNCHANGED <<mem, hist, fxcalls, red, thr, tmp>>

\* lines 68-73
FxPolyP ==
  /\ fx.pc = "polyp"
  /\ fx' = [fx EXCEPT !.pc = "polyq", !.px = PolyP(fx.x, fx.xx)]
  /\ UNCHANGED <<mem, hist, fxcalls, red, thr, tmp>>

\* lines 76-82
FxPolyQ ==
  /\ fx.pc = "polyq"
  /\ fx' = [fx EXCEPT !.pc = "quot", !.qx = PolyQ(fx.xx)]
  /\ UNCHANGED <<mem, hist, fxcalls, red, thr, tmp>>

\* line 85
FxQuot ==
  /\ fx.pc = "quot"
  /\ fx' = [fx EXCEPT !.pc = "oneplus", !.x = Quot(fx.px, fx.qx)]
  /\ UNCHANGED <<mem, hist, fxcalls, red, thr, tmp>>

\* line 86
FxOnePlus ==
  /\ fx.pc = "oneplus"
  /\ fx' = [fx EXCEPT !.pc = "build", !.x = OnePlusTwice(fx.x)]
  /\ UNCHANGED <<mem, hist, fxcalls, red, thr, tmp>>

\* lines 89-92 (n + 1023 cannot overflow: n is at most 1022)
FxBuild ==
  /\ fx.pc = "build"
  /\ fx' = [fx EXCEPT !.pc = "return", !.n = fx.n + 1023,
                      !.u = BuildPow2(fx.n + 1023)]
  /\ UNCHANGED <<mem, hist, fxcalls, red, thr, tmp>>

\* line 94
FxReturn ==
  /\ fx.pc = "return"
  /\ fx' = [fx EXCEPT !.pc = "done", !.ret = Scale(fx.x, fx.u)]
  /\ UNCHANGED <<mem, hist, fxcalls, red, thr, tmp>>

InitFx ==
  /\ mem = [a \in Addr |-> Three]
  /\ Quiet

NextFx ==
  \/ FxCall
  \/ FxClamp
  \/ FxCast
  \/ FxReduce
  \/ FxPolyP
  \/ FxPolyQ
  \/ FxQuot
  \/ FxOnePlus
  \/ FxBuild
  \/ FxReturn

SpecFx == InitFx /\ [][NextFx]_vars

\* the step machine returns what the operator fastexp gives
FxAgrees == fx.pc = "done" => fx.ret \in fastexp(fx.arg)

\* MINLOG <= x <= MAXLOG
InDomain(x) == Le(MINLOG, x) /\ Le(x, MAXLOG)

\* C1: fastexp returns positive infinity for every x above MAXLOG and 0.0
\* for every x below MINLOG; for x equal to MAXLOG or MINLOG it takes
\* neither return and the approximation runs.
C1_ClampToInfinity ==
  fx.pc = "done" =>
    /\ Lt(MAXLOG, fx.arg) => fx.ret = Inf(0)
    /\ Lt(fx.arg, MINLOG) => fx.ret = Zero(0)
    /\ fx.arg \in {MAXLOG, MINLOG} => fx.u # ZeroBytes

\* what fastexp does: above MAXLOG it returns its constant INFINITY, the
\* largest finite double; the rest is as C1 says
C1_ClampToLargest ==
  fx.pc = "done" =>
    /\ Lt(MAXLOG, fx.arg) => fx.ret = INFINITY /\ IsFinite(fx.ret)
    /\ Lt(fx.arg, MINLOG) => fx.ret = Zero(0)
    /\ fx.arg \in {MAXLOG, MINLOG} => fx.u # ZeroBytes

C1_Reached ==
  fx.pc = "done" /\ fx.arg = IntToDbl(709) /\ fx.ret = INFINITY /\ fx.u = ZeroBytes

\* the integers nearest to a finite d of magnitude below 2^31
Floor(d) ==
  IF d.s = 0 THEN BToInt(Trunc[d])
  ELSE IF IntToDbl(-BToInt(Trunc[d])) = d \/ IsZero(d) THEN -BToInt(Trunc[d])
  ELSE -BToInt(Trunc[d]) - 1

Nearest(d) ==
  LET f == Floor(d)
      frac == Sub(d, IntToDbl(f))
  IN  IF Lt(frac, HalfD) THEN {f} ELSE IF Lt(HalfD, frac) THEN {f + 1} ELSE {f, f + 1}

\* ln(2)/2 = 0.34657359..., rounded up in its eighth decimal place
HalfLn2 == Dbl(0, 1021, 25923778, 23727117)     \* 0.3465736

\* C3: for MINLOG <= x <= MAXLOG the range reduction computes n as the
\* integer nearest to x * LOG2E, and the reduced argument x - n * ln(2) is
\* at most ln(2)/2 in magnitude.
C3_NearestInteger ==
  (fx.pc = "polyp" /\ InDomain(fx.arg)) =>
    /\ fx.n \in Nearest(Mul(LOG2E, fx.arg))
    /\ Le(Fabs(fx.x), HalfLn2)

\* what fastexp does: the cast cuts LOG2E * x + 0.5 towards zero, which is
\* the nearest integer only where that sum is not negative
C3_CutTowardsZero ==
  (fx.pc = "polyp" /\ InDomain(fx.arg)) =>
    /\ fx.n = DblToInt(Scaled(fx.arg))
    /\ ~Lt(Scaled(fx.arg), Zero(0)) =>
         /\ fx.n \in Nearest(Mul(LOG2E, fx.arg))
         /\ Le(Fabs(fx.x), HalfLn2)

C3_Reached ==
  /\ fx.pc = "polyp"
  /\ fx.arg = IntToDbl(-1)
  /\ fx.n = 0
  /\ fx.x = IntToDbl(-1)
  /\ Nearest(Mul(LOG2E, fx.arg)) = {-1}

\* C4: for MINLOG <= x <= MAXLOG the scale factor is 2^n for the n of the
\* range reduction: sign 0, exponent field b = n + 1023, fraction 0.  The
\* two bytes written hold every bit of b, and 1 <= b <= 2046.
C4_ScaleFactor ==
  (fx.pc \in {"return", "done"} /\ InDomain(fx.arg)) =>
    /\ fx.n - 1023 \in CastInt(Scaled(fx.arg))
    /\ fx.n \in 1..2046
    /\ UnionD(fx.u) = Dbl(0, fx.n, 0, 0)
    /\ fx.u[7] * 16 + fx.u[6] \div 16 = fx.n
    /\ fx.u[7] < 128 /\ fx.u[6] % 16 = 0
    /\ \A i \in 0..5 : fx.u[i] = 0

C4_Reached ==
  fx.pc = "return" /\ fx.arg = MAXLOG /\ fx.n = 2045 /\ fx.u[7] = 127 /\ fx.u[6] = 208

\* C10: fastexp(0) is exactly 1.0: n is 0, the reduced argument is 0, px is
\* 0, the quotient px / (qx - px) is 0, the scale factor has exponent field
\* 1023, and the result is (1 + 2 * 0) * 1 = 1.
C10_ExpOfZero ==
  IsZero(fx.arg) =>
    /\ fx.pc = "reduce" => fx.n = 0
    /\ fx.pc = "polyp" => IsZero(fx.x)
    /\ fx.pc = "polyq" => IsZero(fx.px)
    /\ fx.pc = "oneplus" => IsZero(fx.x)
    /\ fx.pc = "build" => fx.x = One
    /\ fx.pc = "return" => fx.n = 1023 /\ UnionD(fx.u) = One
    /\ fx.pc = "done" => fx.ret = One

C10_Reached ==
  fx.pc = "done" /\ fx.arg = Zero(0) /\ fx.n = 1023 /\ fx.ret = One

(***************************************************************************)
(* The vector operations, a whole call at a time.  A buffer is a run of    *)
(* cells of mem; a pointer is the address of its first cell.               *)
(***************************************************************************)
\* a loop test that lets i reach n
UpTo(i, n) == i <= n

\* the loop test i < n
InRange(i, n) == i < n

\* x[i] where a * x[i] is meant
JustX(a, xv) == xv

\* a * x[i] of vecaadd and vecasub
Prod(a, xv) == Mul(a, xv)

\* the value one iteration stores in y[i], from the old y[i], a and x[i]
Body(op, yv, a, xv) ==
  CASE op = "veczero" -> Zero(0)
    [] op = "vecset" -> a
    [] op = "veccopy" -> xv
    [] op = "vecadd" -> Add(yv, xv)
    [] op = "vecaadd" -> Add(yv, Prod(a, xv))
    [] op = "vecsub" -> Sub(yv, xv)
    [] op = "vecasub" -> Sub(yv, Prod(a, xv))
    [] op = "vecmul" -> Mul(yv, xv)
    [] op = "vecinv" -> Div(One, yv)
    [] op = "vecscale" -> Mul(yv, a)

\* for (i = 0; i < n; ++i) y[i] = ...: memory after the iterations from i on
Loop[op \in STRING, m \in Memory, y \in Addr, a \in Double, x \in Addr, i \in Nat, n \in Int] ==
  IF InRange(i, n)
    THEN Loop[op, [m EXCEPT ![y + i] = Body(op, m[y + i], a, m[x + i])],
              y, a, x, i + 1, n]
  ELSE m

\* memset of n doubles: all bytes zero is +0.0
veczero(m, x, n) == Loop["veczero", m, x, Zero(0), x, 0, n]

vecset(m, x, a, n) == Loop["vecset", m, x, a, x, 0, n]

\* memcpy of n doubles, y and x not overlapping
veccopy(m, y, x, n) == Loop["veccopy", m, y, Zero(0), x, 0, n]

vecadd(m, y, x, n) == Loop["vecadd", m, y, Zero(0), x, 0, n]

vecaadd(m, y, a, x, n) == Loop["vecaadd", m, y, a, x, 0, n]

vecsub(m, y, x, n) == Loop["vecsub", m, y, Zero(0), x, 0, n]

vecasub(m, y, a, x, n) == Loop["vecasub", m, y, a, x, 0, n]

vecmul(m, y, x, n) == Loop["vecmul", m, y, Zero(0), x, 0, n]

vecinv(m, y, n) == Loop["vecinv", m, y, Zero(0), y, 0, n]

vecscale(m, y, a, n) == Loop["vecscale", m, y, a, y, 0, n]

\* x[i] == 0. read as "the same bits as +0.0"
SameBits(v) == v = Zero(0)

\* x[i] == 0.
IsZeroTest(v) == Eq(v, Zero(0))

\* the outcomes of one iteration of vecexp at address a: the memory, and the
\* arguments fastexp has been called with
ExpStep(st, a) ==
  IF IsZeroTest(st.mem[a])
    THEN {[mem |-> [st.mem EXCEPT ![a] = One], calls |-> st.calls]}
  ELSE {[mem |-> [st.mem EXCEPT ![a] = r], calls |-> st.calls \cup {st.mem[a]}] :
          r \in fastexp(st.mem[a])}

\* the outcomes of the iterations of vecexp from i on
ExpLoop[st \in Outcome, x \in Addr, i \in Nat, n \in Int] ==
  IF InRange(i, n)
    THEN UNION {ExpLoop[t, x, i + 1, n] : t \in ExpStep(st, x + i)}
  ELSE {st}

\* the outcomes of vecexp(x, n): one for each choice fastexp leaves open
vecexp(m, x, n) == ExpLoop[[mem |-> m, calls |-> {}], x, 0, n]

(***************************************************************************)
(* One call of an in-place operation, from any of the bounded memories.    *)
(* hist records the call and the memory it started from.                   *)
(***************************************************************************)
\* the scalars a passed
Scalars == {Zero(0), One}

\* the pointers passed: one buffer, and a pair of buffers that are either
\* distinct or the same one
Bufs == {Base(0), Base(1)}
BufPairs == {<<Base(0), Base(1)>>, <<Base(1), Base(0)>>, <<Base(0), Base(0)>>}

Called(op, y, a, x, n) ==
  hist' = Append(hist, [op |-> op, y |-> y, a |-> a, x |-> x, n |-> n, before |-> mem])

CallVeczero ==
  /\ hist = <<>>
  /\ \E x \in Bufs, n \in Lens :
       mem' = veczero(mem, x, n) /\ Called("veczero", x, Zero(0), x, n)
  /\ UNCHANGED <<fxcalls, fx, red, thr, tmp>>

CallVecset ==
  /\ hist = <<>>
  /\ \E x \in Bufs, a \in Scalars, n \in Lens :
       mem' = vecset(mem, x, a, n) /\ Called("vecset", x, a, x, n)
  /\ UNCHANGED <<fxcalls, fx, red, thr, tmp>>

CallVeccopy ==
  /\ hist = <<>>
  /\ \E p \in BufPairs, n \in Lens :
       /\ p[1] # p[2]
       /\ mem' = veccopy(mem, p[1], p[2], n)
       /\ Called("veccopy", p[1], Zero(0), p[2], n)
  /\ UNCHANGED <<fxcalls, fx, red, thr, tmp>>

CallVecadd ==
  /\ hist = <<>>
  /\ \E p \in BufPairs, n \in Lens :
       mem' = vecadd(mem, p[1], p[2], n) /\ Called("vecadd", p[1], Zero(0), p[2], n)
  /\ UNCHANGED <<fxcalls, fx, red, thr, tmp>>

CallVecaadd ==
  /\ hist = <<>>
  /\ \E p \in BufPairs, a \in Scalars, n \in Lens :
       mem' = vecaadd(mem, p[1], a, p[2], n) /\ Called("vecaadd", p[1], a, p[2], n)
  /\ UNCHANGED <<fxcalls, fx, red, thr, tmp>>

CallVecsub ==
  /\ hist = <<>>
  /\ \E p \in BufPairs, n \in Lens :
       mem' = vecsub(mem, p[1], p[2], n) /\ Called("vecsub", p[1], Zero(0), p[2], n)
  /\ UNCHANGED <<fxcalls, fx, red, thr, tmp>>

CallVecasub ==
  /\ hist = <<>>
  /\ \E p \in BufPairs, a \in Scalars, n \in Lens :
       mem' = vecasub(mem, p[1], a, p[2], n) /\ Called("vecasub", p[1], a, p[2], n)
  /\ UNCHANGED <<fxcalls, fx, red, thr, tmp>>

CallVecmul ==
  /\ hist = <<>>
  /\ \E p \in BufPairs, n \in Lens :
       mem' = vecmul(mem, p[1], p[2], n) /\ Called("vecmul", p[1], Zero(0), p[2], n)
  /\ UNCHANGED <<fxcalls, fx, red, thr, tmp>>

CallVecinv ==
  /\ hist = <<>>
  /\ \E y \in Bufs, n \in Lens :
       mem' = vecinv(mem, y, n) /\ Called("vecinv", y, Zero(0), y, n)
  /\ UNCHANGED <<fxcalls, fx, red, thr, tmp>>

CallVecscale ==
  /\ hist = <<>>
  /\ \E y \in Bufs, a \in Scalars, n \in Lens :
       mem' = vecscale(mem, y, a, n) /\ Called("vecscale", y, a, y, n)
  /\ UNCHANGED <<fxcalls, fx, red, thr, tmp>>

CallVecexp ==
  /\ hist = <<>>
  /\ \E x \in Bufs, n \in Lens :
       /\ \E o \in vecexp(mem, x, n) : mem' = o.mem /\ fxcalls' = o.calls
       /\ Called("vecexp", x, Zero(0), x, n)
  /\ UNCHANGED <<fx, red, thr, tmp>>

\* the cells of the first buffer hold +0.0, -0.0 or 1.0, those of the second
\* 1.0 or +infinity
Init == mem \in Memories({Zero(0), Zero(1), One}, {One, Inf(0)}) /\ Quiet

Next ==
  \/ CallVeczero
  \/ CallVecset
  \/ CallVeccopy
  \/ CallVecadd
  \/ CallVecaadd
  \/ CallVecsub
  \/ CallVecasub
  \/ CallVecmul
  \/ CallVecinv
  \/ CallVecscale
  \/ CallVecexp

Spec == Init /\ [][Next]_vars

(***************************************************************************)
(* Properties of one call.                                                 *)
(***************************************************************************)
\* the call made was of op
Did(op) == hist # <<>> /\ hist[1].op = op

\* C2: after vecexp(x, n) every x[i] with i < n is exactly 1.0 where the old
\* x[i] was zero (+0.0 or -0.0) and is fastexp(old x[i]) elsewhere, so a
\* vector of zeros becomes a vector of exact ones; fastexp was called with
\* the old elements that are not zero and with nothing else.
C2_ExpOfVector ==
  Did("vecexp") =>
    LET c == hist[1]
    IN  /\ \A i \in 0..(c.n - 1) :
             IF IsZero(c.before[c.x + i]) THEN mem[c.x + i] = One
             ELSE mem[c.x + i] \in fastexp(c.before[c.x + i])
        /\ fxcalls = {c.before[c.x + i] : i \in 0..(c.n - 1)} \ {Zero(0), Zero(1)}

\* C2: vecexp has run over a whole buffer that began with -0.0 and 1.0: the
\* first became 1.0 with no call of fastexp, the second fastexp(1.0)
C2_Reached ==
  /\ Did("vecexp") /\ hist[1].n = MaxLen /\ hist[1].x = Base(0)
  /\ hist[1].before[0] = Zero(1) /\ hist[1].before[1] = One
  /\ mem[0] = One /\ mem[1] = Dbl(0, 1024, 24101538, 51664746)
  /\ fxcalls = {One}

C9_Frame ==
  hist # <<>> =>
    LET c == hist[1]
    IN  \A a \in Addr : a < c.y \/ a >= c.y + c.n => mem[a] = c.before[a]

\* C9: veczero with n = 1 has zeroed y[0], which held 1.0, and has left
\* y[1] = 1.0
C9_Reached ==
  /\ Did("veczero") /\ hist[1].n = 1 /\ hist[1].y = Base(0)
  /\ hist[1].before[0] = One /\ hist[1].before[1] = One
  /\ mem[0] = Zero(0) /\ mem[1] = One

(***************************************************************************)
(* vecadd followed by vecsub with the same arguments.                      *)
(***************************************************************************)
\* the second call of the caller: vecsub(y, x, n) with the arguments of the
\* vecadd just made
SeqVecsub ==
  /\ Len(hist) = 1 /\ hist[1].op = "vecadd"
  /\ mem' = vecsub(mem, hist[1].y, hist[1].x, hist[1].n)
  /\ Called("vecsub", hist[1].y, Zero(0), hist[1].x, hist[1].n)
  /\ UNCHANGED <<fxcalls, fx, red, thr, tmp>>

\* the cells of y hold 2^-60, 1.0 or the largest finite value, those of x
\* 1.0, +infinity or the largest finite value
InitSeq == mem \in Memories({Tiny, One, INFINITY}, {One, Inf(0), INFINITY}) /\ Quiet

NextSeq == CallVecadd \/ SeqVecsub

SpecSeq == InitSeq /\ [][NextSeq]_vars

\* vecadd and then vecsub have run on distinct buffers
AddSubDone == Len(hist) = 2 /\ hist[1].y # hist[1].x

\* 2^-51
Eps == Dbl(0, 972, 0, 0)

\* the larger of two values that are not NaN
Larger(a, b) == IF Lt(a, b) THEN b ELSE a

\* C7 as claimed: after vecadd(y, x, n) and vecsub(y, x, n) on distinct
\* buffers every element of y has the value it had before the add.
C7_AddThenSubRestores ==
  AddSubDone =>
    \A i \in 0..(hist[1].n - 1) : mem[hist[1].y + i] = hist[1].before[hist[1].y + i]

\* C7: after vecadd(y, x, n) and vecsub(y, x, n) on distinct buffers x is as
\* it was, and every y[i], i < n, whose old value, x[i] and their sum are all
\* finite is within 2^-51 * max(|x[i]|, |old y[i]|) of its old value; where
\* x[i] is infinite or the sum overflowed, y[i] is left infinite or NaN.
C7_AddThenSub ==
  AddSubDone =>
    \A i \in 0..(hist[1].n - 1) :
      LET y0 == hist[1].before[hist[1].y + i]
          xv == hist[1].before[hist[1].x + i]
          sum == hist[2].before[hist[1].y + i]
          y2 == mem[hist[1].y + i]
      IN  /\ mem[hist[1].x + i] = xv
          /\ IF IsFinite(y0) /\ IsFinite(xv) /\ IsFinite(sum)
               THEN Le(Fabs(Sub(y2, y0)), Mul(Eps, Larger(Fabs(xv), Fabs(y0))))
             ELSE ~IsFinite(y2)

\* C7: y[0] = 2^-60 and x[0] = 1.0 have been added and subtracted, and y[0]
\* is left 0.0
C7_Reached ==
  /\ AddSubDone /\ hist[1].n > 0 /\ hist[1].y = Base(0) /\ hist[1].x = Base(1)
  /\ hist[1].before[Base(0)] = Tiny /\ hist[1].before[Base(1)] = One
  /\ hist[2].before[Base(0)] = One
  /\ mem[Base(0)] = Zero(0)

(***************************************************************************)
(* The reductions vecdot, vecsum and vecsumlog.                            *)
(***************************************************************************)
\* log of the C library at the arguments met: log(+-0) is -infinity, log of
\* a negative number is NaN, log(1) is +0, log(3) is 1.0986122886681098
Log(d) ==
  CASE IsNaN(d) -> NaN
    [] IsZero(d) -> Inf(1)
    [] ~IsNaN(d) /\ ~IsZero(d) /\ d.s = 1 -> NaN
    [] IsInf(d) /\ d.s = 0 -> Inf(0)
    [] d = One -> Zero(0)
    [] d = Three -> Dbl(0, 1023, 6617758, 44892939)

\* the term an iteration adds, from x[i] and y[i]
Term(op, xv, yv) ==
  CASE op = "vecdot" -> Mul(xv, yv)
    [] op = "vecsum" -> xv
    [] op = "vecsumlog" -> Log(xv)

\* a term stored where it is to be added
Overwrite(s, t) == t

\* s += t
Acc(s, t) == Add(s, t)

\* for (i = 0; i < n; ++i) s += ...: s after the iterations from i on
RedLoop[op \in STRING, m \in Memory, x \in Addr, y \in Addr, i \in Nat, n \in Int, s \in Double] ==
  IF InRange(i, n)
    THEN RedLoop[op, m, x, y, i + 1, n, Acc(s, Term(op, m[x + i], m[y + i]))]
  ELSE s

vecdot(m, x, y, n) == RedLoop["vecdot", m, x, y, 0, n, Zero(0)]

vecsum(m, x, n) == RedLoop["vecsum", m, x, x, 0, n, Zero(0)]

vecsumlog(m, x, n) == RedLoop["vecsumlog", m, x, x, 0, n, Zero(0)]

\* the lengths passed: a reduction may read the whole buffer
RedLens == 0..BufLen

\* the locals at the entry of a reduction: int i; floatval_t s = 0;
Entered(op, x, y, n) ==
  [RedIdle EXCEPT !.pc = "test", !.op = op, !.x = x, !.y = y, !.n = n]

CallVecdot ==
  /\ red.pc = "idle"
  /\ \E p \in BufPairs, n \in RedLens :
       red' = Entered("vecdot", p[1], p[2], n) /\ Called("vecdot", p[2], Zero(0), p[1], n)
  /\ UNCHANGED <<mem, fxcalls, fx, thr, tmp>>

CallVecsum ==
  /\ red.pc = "idle"
  /\ \E x \in Bufs, n \in RedLens :
       red' = Entered("vecsum", x, x, n) /\ Called("vecsum", x, Zero(0), x, n)
  /\ UNCHANGED <<mem, fxcalls, fx, thr, tmp>>

CallVecsumlog ==
  /\ red.pc = "idle"
  /\ \E n \in RedLens :
       red' = Entered("vecsumlog", Base(1), Base(1), n)
         /\ Called("vecsumlog", Base(1), Zero(0), Base(1), n)
  /\ UNCHANGED <<mem, fxcalls, fx, thr, tmp>>

\* one iteration: i < n holds, the term is added, i is incremented
RedIter ==
  /\ red.pc = "test" /\ InRange(red.i, red.n)
  /\ red' = [red EXCEPT !.s = Acc(red.s, Term(red.op, mem[red.x + red.i], mem[red.y + red.i])),
                        !.seen = Append(red.seen, red.i),
                        !.i = red.i + 1]
  /\ UNCHANGED <<mem, hist, fxcalls, fx, thr, tmp>>

\* i < n fails: return s
RedReturn ==
  /\ red.pc = "test" /\ ~InRange(red.i, red.n)
  /\ red' = [red EXCEPT !.pc = "done", !.ret = {red.s}]
  /\ UNCHANGED <<mem, hist, fxcalls, fx, thr, tmp>>

\* the cells of the first buffer hold 2^-60, 1.0 or -3.0, those of the second
\* 0.0 or +infinity
InitRed == mem \in Memories({Tiny, One, Neg(Three)}, {Zero(0), Inf(0)}) /\ Quiet

NextRed == CallVecdot \/ CallVecsum \/ CallVecsumlog \/ RedIter \/ RedReturn

SpecRed == InitRed /\ [][NextRed]_vars

\* the fold from the left of the first k terms of a reduction, from 0
FoldL[op \in STRING, m \in Memory, x \in Addr, y \in Addr, k \in Nat] ==
  IF k = 0 THEN Zero(0)
  ELSE Add(FoldL[op, m, x, y, k - 1], Term(op, m[x + k - 1], m[y + k - 1]))

\* C8: in vecdot, vecsum and vecsumlog, after k iterations the indices read
\* are 0, 1, ..., k - 1 in this order, once each, and s is the fold from the
\* left of the first k terms, starting from 0; the value returned is the fold
\* of all n terms, which is the value of the whole call and is 0 for n = 0;
\* memory is as it was at the call.
C8_LeftFold ==
  red.pc \in {"test", "done"} =>
    /\ red.i <= red.n
    /\ red.seen = [k \in 1..red.i |-> k - 1]
    /\ red.s = FoldL[red.op, mem, red.x, red.y, red.i]
    /\ mem = hist[1].before
    /\ red.pc = "done" =>
         /\ red.i = red.n
         /\ red.ret = {FoldL[red.op, mem, red.x, red.y, red.n]}
         /\ red.ret = {RedLoop[red.op, mem, red.x, red.y, 0, red.n, Zero(0)]}
         /\ red.n = 0 => red.ret = {Zero(0)}

\* C8: vecsum has returned from 2^-60, -3.0 and 3.0, read in this order:
\* ((0 + 2^-60) - 3) + 3 is 0, where 2^-60 + (-3 + 3) would be 2^-60
C8_Reached ==
  /\ red.pc = "done" /\ red.op = "vecsum" /\ red.x = Base(0) /\ red.n = 3
  /\ mem[0] = Tiny /\ mem[1] = Neg(Three) /\ mem[2] = Three
  /\ red.seen = <<0, 1, 2>>
  /\ red.ret = {Zero(0)}

(***************************************************************************)
(* Two threads, each making one call on buffers of its own, an element at  *)
(* a time: the operands are read in one step, the result is written (or    *)
(* added to s) in the next.                                                *)
(***************************************************************************)
\* the operations that return a value
Reductions == {"vecdot", "vecsum"}

\* memory at the start: cell a holds a + 1
ParMem == [a \in Addr |-> IntToDbl(a + 1)]

\* one set of locals for all calls
OneSlot(t) == 1

\* the locals of a call are the calling thread's own
Slot(t) == t

\* the call: the arguments are passed and i = 0, s = 0.  The y of thread t
\* is buffer 0 or 2, its x the buffer after it
ParCall(t) ==
  /\ thr[t].pc = "idle"
  /\ \E op \in {"vecadd", "vecaadd", "vecsub", "vecasub", "vecmul", "vecinv",
                 "vecscale", "vecdot", "vecsum"}, n \in Lens :
       thr' = [thr EXCEPT ![t] = [ThrIdle EXCEPT !.pc = "read", !.op = op, !.y = Base(2 * t - 2),
                                                 !.a = Two, !.x = Base(2 * t - 1), !.n = n]]
  /\ tmp' = [tmp EXCEPT ![Slot(t)].s = Zero(0)]
  /\ UNCHANGED <<mem, hist, fxcalls, fx, red>>

\* i < n holds: y[i] and x[i] are read
ParRead(t) ==
  /\ thr[t].pc = "read" /\ InRange(thr[t].i, thr[t].n)
  /\ tmp' = [tmp EXCEPT ![Slot(t)].yv = mem[thr[t].y + thr[t].i],
                        ![Slot(t)].xv = mem[thr[t].x + thr[t].i]]
  /\ thr' = [thr EXCEPT ![t].pc = "write"]
  /\ UNCHANGED <<mem, hist, fxcalls, fx, red>>

\* the result is stored in y[i], or the term added to s; i is incremented
ParWrite(t) ==
  /\ thr[t].pc = "write"
  /\ IF thr[t].op \in Reductions
       THEN /\ tmp' = [tmp EXCEPT ![Slot(t)].s =
                         Acc(tmp[Slot(t)].s, Term(thr[t].op, tmp[Slot(t)].xv, tmp[Slot(t)].yv))]
            /\ mem' = mem
     ELSE /\ mem' = [mem EXCEPT ![thr[t].y + thr[t].i] =
                       Body(thr[t].op, tmp[Slot(t)].yv, thr[t].a, tmp[Slot(t)].xv)]
          /\ tmp' = tmp
  /\ thr' = [thr EXCEPT ![t].pc = "read", ![t].i = thr[t].i + 1]
  /\ UNCHANGED <<hist, fxcalls, fx, red>>

\* i < n fails: the call returns, a reduction with s
ParReturn(t) ==
  /\ thr[t].pc = "read" /\ ~InRange(thr[t].i, thr[t].n)
  /\ thr' = [thr EXCEPT ![t].pc = "done",
                        ![t].ret = IF thr[t].op \in Reductions THEN {tmp[Slot(t)].s} ELSE {}]
  /\ UNCHANGED <<mem, hist, fxcalls, fx, red, tmp>>

InitPar == mem = ParMem /\ Quiet

NextPar ==
  \E t \in Threads : ParCall(t) \/ ParRead(t) \/ ParWrite(t) \/ ParReturn(t)

SpecPar == InitPar /\ [][NextPar]_vars

\* memory after the whole call of thread t made from memory m
MemAfter(t, m) ==
  IF thr[t].op \in Reductions THEN m
  ELSE Loop[thr[t].op, m, thr[t].y, thr[t].a, thr[t].x, 0, thr[t].n]

\* what the whole call of thread t returns when made from memory m
RetAfter(t, m) ==
  IF thr[t].op \in Reductions
    THEN {RedLoop[thr[t].op, m, thr[t].x, thr[t].y, 0, thr[t].n, Zero(0)]}
  ELSE {}

\* C5: when two calls on disjoint buffers have run concurrently, element
\* step by element step in any interleaving, the memory left and the values
\* returned are those of the first call run whole and then the second, and
\* those of the second run whole and then the first.
C5_DisjointCalls ==
  (\A t \in Threads : thr[t].pc = "done") =>
    /\ mem = MemAfter(2, MemAfter(1, ParMem))
    /\ mem = MemAfter(1, MemAfter(2, ParMem))
    /\ thr[1].ret = RetAfter(1, ParMem)
    /\ thr[2].ret = RetAfter(2, MemAfter(1, ParMem))
    /\ thr[2].ret = RetAfter(2, ParMem)
    /\ thr[1].ret = RetAfter(1, MemAfter(2, ParMem))

\* C5: vecaadd over a whole buffer of thread 1 and vecdot over the buffers of
\* thread 2 have both returned: y[0] of thread 1 is 1 + 2 * 4 and the dot
\* product is 7 * 10 + 8 * 11
C5_Reached ==
  /\ \A t \in Threads : thr[t].pc = "done" /\ thr[t].n = 2
  /\ thr[1].op = "vecaadd" /\ thr[2].op = "vecdot"
  /\ mem[0] = IntToDbl(9) /\ thr[2].ret = {IntToDbl(158)}

=============================================================================
